---- MODULE Spec2Model ----
(***************************************************************************)
(* A model of spatialdigraph.py: the SpatialDiGraph accessors (coords, xy, *)
(* shape, geometry, feature), the in-place reprojection transform, and the *)
(* persistence pair writeGisFile / readGisFile.                            *)
(*                                                                         *)
(* Python values are modelled as tagged pairs <<type, text>>; a dict is a  *)
(* function whose DOMAIN is its key set; a graph is a record of the three  *)
(* networkx dicts node, edge (keyed by the pair <<u, v>>) and graph.       *)
(* Coordinates are integers counting half units (tick 1 is 0.5), so that   *)
(* rounding to 0 decimals is not the identity.                             *)
(***************************************************************************)
EXTENDS Integers, Sequences, FiniteSets, TLC

VARIABLES
  self,   \* the SpatialDiGraph the methods are called on
  ret,    \* the accessor call: its arguments, and once made its outcome
  tpc,    \* transform: where the call stands (idle, nodes, edges, done, raised)
  tin,    \* transform: the CRS of p_in
  tout,   \* transform: the CRS of p_out, the crs argument
  todo,   \* transform: the nodes or edges the running loop has yet to visit
  snap,   \* transform: the graph as it was when the call began
  calls,  \* transform: the calls made so far
  args,   \* writeGisFile / readGisFile: the arguments of the calls
  file,   \* the dataset at path: its nodes layer and its edges layer
  wpc,    \* writeGisFile: where the call stands
  wret,   \* writeGisFile: its return value or exception
  rpc,    \* readGisFile: where the call stands
  ri,     \* readGisFile: the index of the record the running loop is at
  g,      \* readGisFile: the graph under construction
  rret    \* readGisFile: its return value or exception

vars == <<self, ret, tpc, tin, tout, todo, snap, calls,
          args, file, wpc, wret, rpc, ri, g, rret>>

geomVars == <<ret>>
transVars == <<tpc, tin, tout, todo, snap, calls>>
writeVars == <<wpc, wret>>
readVars == <<rpc, ri, g, rret>>
ioVars == <<args, file, writeVars, readVars>>

\* ---------------------------------------------------------------- bounds
MaxXY == 2
MaxMid == 1
MaxArgs == 3
MaxCalls == 3

\* ---------------------------------------------------------- python values
S(t) == <<"str", t>>
I(t) == <<"int", t>>
None == <<"none", "">>

EmptyDict == [k \in {} |-> None]
Put(d, k, v) == [x \in DOMAIN d \cup {k} |-> IF x = k THEN v ELSE d[x]]
Pop(d, k) == [x \in DOMAIN d \ {k} |-> d[x]]
Get(d, k) == IF k \in DOMAIN d THEN d[k] ELSE None
Update(d, e) == [x \in DOMAIN d \cup DOMAIN e |-> IF x \in DOMAIN e THEN e[x] ELSE d[x]]

Return(v) == [ok |-> TRUE, val |-> v]
Raise(msg, a) == [ok |-> FALSE, err |-> msg, args |-> a]

NewGraph == [node |-> EmptyDict, edge |-> EmptyDict, graph |-> EmptyDict]

\* ------------------------------------------------------ geometry assembly
pairs(nodes) == [i \in 1..(Len(nodes) - 1) |-> <<nodes[i], nodes[i + 1]>>]

\* the path with each edge's target node put before the edge's own vertices
RECURSIVE pathNodeFirst(_, _, _)
pathNodeFirst(G, nodes, i) ==
  IF i > Len(nodes) THEN <<>>
  ELSE <<G.node[nodes[i]]["coords"]>>
         \o G.edge[<<nodes[i - 1], nodes[i]>>]["coords"]
         \o pathNodeFirst(G, nodes, i + 1)

RECURSIVE path(_, _, _)
path(G, nodes, i) ==
  IF i > Len(nodes) THEN <<>>
  ELSE G.edge[<<nodes[i - 1], nodes[i]>>]["coords"]
         \o <<G.node[nodes[i]]["coords"]>>
         \o path(G, nodes, i + 1)

lookup(G, nodes) ==
  LET badNode == {i \in 1..Len(nodes) :
                    \/ nodes[i] \notin DOMAIN G.node
                    \/ "coords" \notin DOMAIN G.node[nodes[i]]}
      ps == pairs(nodes)
      badEdge == {i \in DOMAIN ps :
                    \/ ps[i] \notin DOMAIN G.edge
                    \/ "coords" \notin DOMAIN G.edge[ps[i]]}
      firstOf(B) == CHOOSE i \in B : \A j \in B : i <= j
  IN  IF badNode # {} THEN
        LET nd == nodes[firstOf(badNode)]
        IN  IF nd \notin DOMAIN G.node
              THEN Raise("is not a node in the graph", <<nd>>)
              ELSE Raise("Node does not have a coords attribute", <<nd>>)
      ELSE IF badEdge # {} THEN
        LET e == ps[firstOf(badEdge)]
        IN  IF e \notin DOMAIN G.edge
              THEN Raise("is not and edge in the graph", e)
              ELSE Raise("Edge does not have a coords attribute", e)
      ELSE IF Len(nodes) = 1 THEN Return(G.node[nodes[1]]["coords"])
      ELSE Return(<<G.node[nodes[1]]["coords"]>> \o path(G, nodes, 2))

\* coords without its arity check: nodes[0] of an empty tuple is an IndexError
coordsNoArity(G, nodes) ==
  IF Len(nodes) = 0 THEN Raise("IndexError", <<>>) ELSE lookup(G, nodes)

coords(G, nodes) ==
  IF Len(nodes) = 0 THEN Raise("must provide at least one node", <<>>)
  ELSE lookup(G, nodes)

\* zip(*points): the sequence of x's and the sequence of y's
unzip(points) == <<[i \in DOMAIN points |-> points[i][1]],
                   [i \in DOMAIN points |-> points[i][2]]>>

xy(G, nodes) ==
  LET c == coords(G, nodes)
  IN  IF Len(nodes) = 1 THEN c
      ELSE IF c.ok THEN Return(unzip(c.val)) ELSE c

shape(G, nodes) ==
  LET c == coords(G, nodes)
  IN  IF ~c.ok THEN c
      ELSE IF Len(nodes) = 1 THEN Return([geom |-> "Point", pts |-> c.val])
      ELSE Return([geom |-> "LineString", pts |-> c.val])

geometry(G, nodes) ==
  LET s == shape(G, nodes)
  IN  IF ~s.ok THEN s
      ELSE Return([type |-> s.val.geom, coordinates |-> s.val.pts])

\* dict.copy(): a new object holding the same items; ref tells which stored
\* dict an object is (a node's, an edge's) or that it is a fresh one.
Fresh == [kind |-> "fresh", key |-> <<>>]
Stored(kind, key) == [kind |-> kind, key |-> key]
\* an assignment in place of the copy: the same object as the stored dict
alias(ref, d) == [ref |-> ref, val |-> d]

copy(ref, d) == [ref |-> Fresh, val |-> d]

\* the store after  h[k] = v  for the object h
setitem(G, h, k, v) ==
  IF h.ref.kind = "fresh" THEN G
  ELSE IF h.ref.kind = "node"
    THEN [G EXCEPT !.node[h.ref.key] = Put(@, k, v)]
    ELSE [G EXCEPT !.edge[h.ref.key] = Put(@, k, v)]

\* feature: the pair of the call's outcome and the graph after the call
feature(G, nodes) ==
  IF Len(nodes) \notin {1, 2}
    THEN [out |-> Raise("must provide either one or two nodes", <<>>), store |-> G]
  ELSE IF Len(nodes) = 1 THEN
    IF nodes[1] \notin DOMAIN G.node
      THEN [out |-> Raise("KeyError", <<nodes[1]>>), store |-> G]
    ELSE
      LET h  == copy(Stored("node", nodes[1]), G.node[nodes[1]])
          G1 == setitem(G, h, "node", nodes[1])
          props == Put(h.val, "node", nodes[1])
          geom == geometry(G1, nodes)
      IN  IF ~geom.ok THEN [out |-> geom, store |-> G1]
          ELSE [out |-> Return([geometry |-> geom.val, properties |-> props,
                                type |-> "Feature"]),
                store |-> G1]
  ELSE
    LET e == <<nodes[1], nodes[2]>>
    IN  IF e \notin DOMAIN G.edge
          THEN [out |-> Raise("KeyError", e), store |-> G]
        ELSE
          LET h  == copy(Stored("edge", e), G.edge[e])
              G1 == setitem(G, h, "anode", nodes[1])
              G2 == setitem(G1, h, "bnode", nodes[2])
              props == Put(Put(h.val, "anode", nodes[1]), "bnode", nodes[2])
              geom == geometry(G2, nodes)
          IN  IF ~geom.ok THEN [out |-> geom, store |-> G2]
              ELSE [out |-> Return([geometry |-> geom.val, properties |-> props,
                                    type |-> "Feature"]),
                    store |-> G2]

\* ------------------------------------------------- accessor calls (inputs)
N1 == S("n1")
N2 == S("n2")
N3 == S("n3")
GeomIds == {N1, N2, N3}

at(n) == IF n = N1 THEN <<0, 0>> ELSE IF n = N2 THEN <<2, 0>> ELSE <<2, 2>>
code(n) == IF n = N1 THEN 1 ELSE IF n = N2 THEN 2 ELSE 3
mids(e, k) == [i \in 1..k |-> <<10 * code(e[1]) + code(e[2]), i>>]

\* A stored dict by kind: -2 absent, -1 present without a coords attribute,
\* k >= 0 present with coords (an edge: with k intermediate vertices)
nodeBag(n, kind) ==
  IF kind = -1 THEN [k \in {"name"} |-> S("x")]
  ELSE [k \in {"coords", "name"} |-> IF k = "coords" THEN at(n) ELSE S("x")]

edgeBag(e, kind) ==
  IF kind = -1 THEN [k \in {"len"} |-> I("7")]
  ELSE [k \in {"coords", "len"} |-> IF k = "coords" THEN mids(e, kind) ELSE I("7")]

GeomEdges == {<<N1, N2>>, <<N2, N3>>, <<N3, N1>>, <<N2, N2>>}

GeomEdgeKinds(e) ==
  IF e \in {<<N1, N2>>, <<N2, N3>>} THEN -2..MaxMid ELSE {-2, MaxMid}

GeomGraph(k3, ek) ==
  [node  |-> [n \in {m \in GeomIds : m # N3 \/ k3 # -2} |->
                nodeBag(n, IF n = N3 THEN k3 ELSE 0)],
   edge  |-> [e \in {d \in GeomEdges : ek[d] # -2} |-> edgeBag(e, ek[e])],
   graph |-> [k \in {"crs"} |-> "A"]]

GeomGraphs ==
  { GeomGraph(p[1], p[2]) :
      p \in { q \in (-2..0) \X [GeomEdges -> -2..MaxMid] :
                \A e \in GeomEdges :
                  /\ q[2][e] \in GeomEdgeKinds(e)
                  /\ (q[1] = -2 /\ N3 \in {e[1], e[2]}) => q[2][e] = -2 } }

ArgSeqs == UNION {[1..k -> GeomIds] : k \in 0..MaxArgs}

\* no accessor call made yet; nodes holds the arguments of the call to come
NoCall(nodes) == [op |-> "none", nodes |-> nodes, out |-> Return(<<>>), pre |-> NewGraph]

IdleTrans ==
  /\ tpc = "idle" /\ tin = "" /\ tout = "" /\ todo = {} /\ snap = NewGraph /\ calls = 0

\* an optional argument: Python's None, or a value
NoDict == [none |-> TRUE, val |-> EmptyDict]
NoPrecision == [none |-> TRUE, val |-> 0]
Some(v) == [none |-> FALSE, val |-> v]

\* a layer of the dataset at path: absent, or its crs, schema and records
NoLayer == [exists |-> FALSE, crs |-> "", schema |-> EmptyDict, recs |-> <<>>]
NoFile == [nodes |-> NoLayer, edges |-> NoLayer]

Pending == [ok |-> FALSE, err |-> "", args |-> <<>>]

\* plan is the caller's script: "write_read" writes self and reads the
\* dataset back, "read" reads a dataset that is already there
NoArgs == [plan |-> "", method |-> "", precision |-> NoPrecision, node_dtype |-> "",
           node_fields |-> NoDict, edge_fields |-> NoDict]

IdleIO ==
  /\ args = NoArgs /\ file = NoFile /\ wpc = "idle" /\ wret = Pending
  /\ rpc = "idle" /\ ri = 0 /\ g = NewGraph /\ rret = Pending

InitGeom ==
  /\ self \in GeomGraphs
  /\ ret \in {NoCall(nodes) : nodes \in ArgSeqs}
  /\ IdleTrans
  /\ IdleIO

CallCoords ==
  /\ ret.op = "none"
  /\ ret' = [op |-> "coords", nodes |-> ret.nodes, out |-> coords(self, ret.nodes), pre |-> self]
  /\ UNCHANGED <<self, transVars, ioVars>>

CallXy ==
  /\ ret.op = "none"
  /\ ret' = [op |-> "xy", nodes |-> ret.nodes, out |-> xy(self, ret.nodes), pre |-> self]
  /\ UNCHANGED <<self, transVars, ioVars>>

CallShape ==
  /\ ret.op = "none"
  /\ ret' = [op |-> "shape", nodes |-> ret.nodes, out |-> shape(self, ret.nodes), pre |-> self]
  /\ UNCHANGED <<self, transVars, ioVars>>

CallGeometry ==
  /\ ret.op = "none"
  /\ ret' = [op |-> "geometry", nodes |-> ret.nodes, out |-> geometry(self, ret.nodes), pre |-> self]
  /\ UNCHANGED <<self, transVars, ioVars>>

CallFeature ==
  /\ ret.op = "none"
  /\ LET f == feature(self, ret.nodes)
     IN  /\ ret' = [op |-> "feature", nodes |-> ret.nodes, out |-> f.out, pre |-> self]
         /\ self' = f.store
  /\ UNCHANGED <<transVars, ioVars>>

NextGeom == CallCoords \/ CallXy \/ CallShape \/ CallGeometry \/ CallFeature

SpecGeom == InitGeom /\ [][NextGeom]_vars

\* ------------------------------------------------------------ transform
\* The projection collaborator: pyproj.Proj(crs) accepts the descriptors in
\* ValidCrs and raises on any other; pyproj.transform maps a coordinate from
\* one frame to the other. Frame "B" is frame "A" shifted by <<10, 20>>.
ValidCrs == {"A", "B"}
Targets == ValidCrs \cup {"bad"}
Off(crs) == IF crs = "B" THEN <<10, 20>> ELSE <<0, 0>>
proj(p_in, p_out, pt) ==
  <<pt[1] - Off(p_in)[1] + Off(p_out)[1], pt[2] - Off(p_in)[2] + Off(p_out)[2]>>

crs(G) == G.graph["crs"]

\* a node step that also moves the marker (the marker set inside the loop)
transformNodeMarking(G, n, p_in, p_out) ==
  [G EXCEPT !.node[n]["coords"] = proj(p_in, p_out, @), !.graph["crs"] = "B"]

transformNode(G, n, p_in, p_out) ==
  [G EXCEPT !.node[n]["coords"] = proj(p_in, p_out, @)]

transformEdge(G, e, p_in, p_out) ==
  IF G.edge[e]["coords"] # <<>>
    THEN [G EXCEPT !.edge[e]["coords"] = [i \in DOMAIN @ |-> proj(p_in, p_out, @[i])]]
    ELSE G

setCrs(G, c) == [G EXCEPT !.graph = Put(@, "crs", c)]

\* the graphs transform is called on: nodes N1, N2 and edges between them, at
\* the positions at(n), mids(e, k) of frame "A", expressed in frame c0
TransGraph(k2, e12, e21, c0) ==
  LET kind(e) == IF e = <<N1, N2>> THEN e12 ELSE e21
      nodeThere(d) == [k \in DOMAIN d |->
                         IF k = "coords" THEN proj("A", c0, d[k]) ELSE d[k]]
      edgeThere(d) == [k \in DOMAIN d |->
                         IF k = "coords" THEN [i \in DOMAIN d[k] |-> proj("A", c0, d[k][i])]
                         ELSE d[k]]
  IN  [node  |-> [n \in {N1, N2} |-> nodeThere(nodeBag(n, IF n = N2 THEN k2 ELSE 0))],
       edge  |-> [e \in {d \in {<<N1, N2>>, <<N2, N1>>} : kind(d) # -2} |->
                    edgeThere(edgeBag(e, kind(e)))],
       graph |-> [k \in {"crs"} |-> c0]]

TransGraphs ==
  { TransGraph(p[1], p[2], p[3], p[4]) :
      p \in (-1..0) \X (-2..MaxMid) \X {-2, MaxMid} \X ValidCrs }

InitTrans ==
  /\ self \in TransGraphs
  /\ ret = NoCall(<<>>)
  /\ IdleTrans
  /\ IdleIO

TransformBegin ==
  /\ tpc \in {"idle", "done", "raised"}
  /\ calls < MaxCalls
  /\ calls' = calls + 1
  /\ \E target \in Targets :
       /\ tin' = crs(self)
       /\ tout' = target
       /\ snap' = self
       /\ IF target \in ValidCrs
            THEN tpc' = "nodes" /\ todo' = DOMAIN self.node
            ELSE tpc' = "raised" /\ todo' = {}
  /\ UNCHANGED <<self, geomVars, ioVars>>

TransformNode ==
  /\ tpc = "nodes"
  /\ \E n \in todo :
       IF "coords" \notin DOMAIN self.node[n]
         THEN /\ tpc' = "raised"
              /\ UNCHANGED <<self, todo>>
         ELSE \E works \in BOOLEAN :
                IF works
                  THEN /\ self' = transformNode(self, n, tin, tout)
                       /\ todo' = todo \ {n}
                       /\ tpc' = tpc
                  ELSE /\ tpc' = "raised"
                       /\ UNCHANGED <<self, todo>>
  /\ UNCHANGED <<tin, tout, snap, calls, geomVars, ioVars>>

TransformEdges ==
  /\ tpc = "nodes" /\ todo = {}
  /\ tpc' = "edges"
  /\ todo' = DOMAIN self.edge
  /\ UNCHANGED <<self, tin, tout, snap, calls, geomVars, ioVars>>

TransformEdge ==
  /\ tpc = "edges"
  /\ \E e \in todo :
       IF "coords" \notin DOMAIN self.edge[e]
         THEN /\ tpc' = "raised"
              /\ UNCHANGED <<self, todo>>
         ELSE \E works \in BOOLEAN :
                IF works \/ self.edge[e]["coords"] = <<>>
                  THEN /\ self' = transformEdge(self, e, tin, tout)
                       /\ todo' = todo \ {e}
                       /\ tpc' = tpc
                  ELSE /\ tpc' = "raised"
                       /\ UNCHANGED <<self, todo>>
  /\ UNCHANGED <<tin, tout, snap, calls, geomVars, ioVars>>

TransformEnd ==
  /\ tpc = "edges" /\ todo = {}
  /\ self' = setCrs(self, tout)
  /\ tpc' = "done"
  /\ UNCHANGED <<todo, tin, tout, snap, calls, geomVars, ioVars>>

NextTrans ==
  TransformBegin \/ TransformNode \/ TransformEdges \/ TransformEdge \/ TransformEnd

SpecTrans == InitTrans /\ [][NextTrans]_vars

\* ----------------------------------------------------------- writeGisFile
\* fiona.prop_type: the Python type of a declared type tag; a KeyError on a
\* tag fiona does not know. The tags drawn are "str", "int" and "blob".
Supported == {"str", "int"}
Numerals == {"7"}

\* prop_type(tag)(v): str(v) is v's text; int(v) raises unless v is numeric
cast(tag, v) ==
  IF tag \notin Supported THEN Raise("KeyError", <<tag>>)
  ELSE IF tag = "str" THEN Return(S(v[2]))
  ELSE IF v[2] \in Numerals THEN Return(I(v[2]))
  ELSE Raise("ValueError", <<v>>)

values(d) == {d[k] : k \in DOMAIN d}
orEmpty(opt) == IF opt.none THEN EmptyDict ELSE opt.val

\* the validation that leaves the edge schema out
validateNodesOnly(a) ==
  IF (values(orEmpty(a.node_fields)) \cup {a.node_dtype}) \subseteq Supported
    THEN Return(<<>>)
    ELSE Raise("error converting dtype to python type", <<>>)

\* lines 131-138
validate(a) ==
  IF (values(orEmpty(a.node_fields)) \cup values(orEmpty(a.edge_fields))
        \cup {a.node_dtype}) \subseteq Supported
    THEN Return(<<>>)
    ELSE Raise("error converting dtype to python type", <<>>)

\* lines 141-143
nodeSchema(a) == Put(orEmpty(a.node_fields), "node", a.node_dtype)
edgeSchema(a) ==
  Put(Put(orEmpty(a.edge_fields), "anode", a.node_dtype), "bnode", a.node_dtype)

\* the declared properties of a stored dict, cast; the identity fields apart
declared(bag, schema, identity) ==
  LET ks == DOMAIN schema \ identity
      bad == {k \in ks : Get(bag, k) # None /\ ~cast(schema[k], bag[k]).ok}
  IN  IF bad # {} THEN cast(schema[CHOOSE k \in bad : TRUE], bag[CHOOSE k \in bad : TRUE])
      ELSE Return([k \in ks |-> IF Get(bag, k) = None THEN None
                                 ELSE cast(schema[k], bag[k]).val])

\* the record of a node without the cast of its attributes: values as stored
nodeRecordRaw(G, n, a) ==
  LET geom == geometry(G, <<n>>)
      schema == nodeSchema(a)
      id == cast(a.node_dtype, n)
  IN  IF ~geom.ok THEN geom
      ELSE IF ~id.ok THEN id
      ELSE Return([geometry |-> geom.val,
                   properties |-> Put([k \in DOMAIN schema \ {"node"} |-> Get(G.node[n], k)],
                                      "node", id.val)])

\* lines 157-170: the record written for node n
nodeRecord(G, n, a) ==
  LET geom == geometry(G, <<n>>)
      props == declared(G.node[n], nodeSchema(a), {"node"})
      id == cast(a.node_dtype, n)
  IN  IF ~geom.ok THEN geom
      ELSE IF ~props.ok THEN props
      ELSE IF ~id.ok THEN id
      ELSE Return([geometry |-> geom.val, properties |-> Put(props.val, "node", id.val)])

\* lines 187-204: the record written for edge e
edgeRecord(G, e, a) ==
  LET geom == geometry(G, e)
      props == declared(G.edge[e], edgeSchema(a), {"anode", "bnode"})
      u == cast(a.node_dtype, e[1])
      v == cast(a.node_dtype, e[2])
  IN  IF ~geom.ok THEN geom
      ELSE IF ~props.ok THEN props
      ELSE IF ~u.ok THEN u
      ELSE IF ~v.ok THEN v
      ELSE Return([geometry |-> geom.val,
                   properties |-> Put(Put(props.val, "anode", u.val), "bnode", v.val)])

\* the orders in which a dict's keys may be iterated
Orders(keys) ==
  {f \in [1..Cardinality(keys) -> keys] : \A i, j \in DOMAIN f : f[i] = f[j] => i = j}

\* the records written until the first one that raises
RECURSIVE written(_, _)
written(recs, i) ==
  IF i > Len(recs) \/ ~recs[i].ok THEN <<>>
  ELSE <<recs[i].val>> \o written(recs, i + 1)

firstError(recs) ==
  LET bad == {i \in DOMAIN recs : ~recs[i].ok}
  IN  IF bad = {} THEN Return(<<>>) ELSE recs[CHOOSE i \in bad : \A j \in bad : i <= j]

WriteValidate ==
  /\ args.plan = "write_read" /\ wpc = "idle"
  /\ LET v == validate(args)
     IN  IF v.ok THEN wpc' = "validated" /\ wret' = wret
         ELSE wpc' = "raised" /\ wret' = v
  /\ UNCHANGED <<self, args, file, readVars, geomVars, transVars>>

WriteNodes ==
  /\ wpc = "validated"
  /\ \E order \in Orders(DOMAIN self.node) :
       LET recs == [i \in DOMAIN order |-> nodeRecord(self, order[i], args)]
           e == firstError(recs)
       IN  /\ file' = [file EXCEPT !.nodes = [exists |-> TRUE, crs |-> crs(self),
                                              schema |-> nodeSchema(args),
                                              recs |-> written(recs, 1)]]
           /\ IF e.ok THEN wpc' = "nodes_written" /\ wret' = wret
              ELSE wpc' = "raised" /\ wret' = e
  /\ UNCHANGED <<self, args, readVars, geomVars, transVars>>

WriteEdges ==
  /\ wpc = "nodes_written"
  /\ \E order \in Orders(DOMAIN self.edge) :
       LET recs == [i \in DOMAIN order |-> edgeRecord(self, order[i], args)]
           e == firstError(recs)
       IN  /\ file' = [file EXCEPT !.edges = [exists |-> TRUE, crs |-> crs(self),
                                              schema |-> edgeSchema(args),
                                              recs |-> written(recs, 1)]]
           /\ IF e.ok THEN wpc' = "done" /\ wret' = Return(None)
              ELSE wpc' = "raised" /\ wret' = e
  /\ UNCHANGED <<self, args, readVars, geomVars, transVars>>

\* ------------------------------------------------------------ readGisFile
\* round(x, precision) on a coordinate counted in half units: one decimal or
\* more keeps it; no decimal rounds the halves away from zero (Python 2)
round(x, precision) ==
  IF precision >= 1 THEN x
  ELSE IF x >= 0 THEN 2 * ((x + 1) \div 2)
  ELSE -(2 * ((1 - x) \div 2))

\* lines 239-240
rnd(pt, precision) == <<round(pt[1], precision), round(pt[2], precision)>>

\* networkx add_node(n, attr_dict) and add_edge(u, v, attr_dict): a new entry,
\* or the update of the one there
add_node(G, n, props) ==
  [G EXCEPT !.node = Put(@, n, IF n \in DOMAIN @ THEN Update(@[n], props) ELSE props)]

add_edge(G, u, v, props) ==
  [G EXCEPT !.edge = Put(@, <<u, v>>,
                         IF <<u, v>> \in DOMAIN @ THEN Update(@[<<u, v>>], props) ELSE props)]

\* lines 229-234
checkMethod(a) ==
  IF a.method \notin {"byname", "bylocation"}
    THEN Raise("method must be either byname or bylocation", <<>>)
  ELSE IF a.method = "bylocation" /\ a.precision.none
    THEN Raise("if method is bylocation then precision must be provided", <<>>)
  ELSE Return(<<>>)

\* lines 252-255: the id of a node record
nodeId(rec, a) ==
  IF a.method = "byname" THEN rec.properties["node"]
  ELSE rnd(rec.geometry.coordinates, a.precision.val)

\* the end points taken from the first two vertices of the line
endIdsSecondVertex(rec, a) ==
  LET line == rec.geometry.coordinates
  IN  IF a.method = "byname" THEN <<rec.properties["anode"], rec.properties["bnode"]>>
      ELSE <<rnd(line[1], a.precision.val), rnd(line[2], a.precision.val)>>

\* lines 272-278: the ids of an edge record's end points
endIds(rec, a) ==
  LET line == rec.geometry.coordinates
  IN  IF a.method = "byname" THEN <<rec.properties["anode"], rec.properties["bnode"]>>
      ELSE <<rnd(line[1], a.precision.val), rnd(line[Len(line)], a.precision.val)>>

\* coordinates[1:-1]
inner(line) == [i \in 1..(Len(line) - 2) |-> line[i + 1]]

\* the check of line 284 with the second end point forgotten
danglingFirstOnly(G, ends) == ends[1] \notin DOMAIN G.node

\* line 284
dangling(G, ends) == ends[1] \notin DOMAIN G.node \/ ends[2] \notin DOMAIN G.node

\* the comparison of line 264 left out
crsDiffersNever(c, reference) == FALSE

\* line 264
crsDiffers(c, reference) == c # reference

ReadBegin ==
  /\ rpc = "idle"
  /\ \/ args.plan = "read"
     \/ args.plan = "write_read" /\ wpc \in {"done", "raised"}
  /\ LET m == checkMethod(args)
     IN  IF ~m.ok THEN rpc' = "raised" /\ rret' = m /\ UNCHANGED <<g, ri>>
         ELSE IF ~file.nodes.exists
           THEN rpc' = "raised" /\ rret' = Raise("IOError", <<"nodes">>) /\ UNCHANGED <<g, ri>>
         ELSE rpc' = "nodes" /\ ri' = 1 /\ g' = NewGraph /\ rret' = rret
  /\ UNCHANGED <<self, args, file, writeVars, geomVars, transVars>>

ReadNode ==
  /\ rpc = "nodes" /\ ri <= Len(file.nodes.recs)
  /\ LET rec == file.nodes.recs[ri]
         props == Put(rec.properties, "coords", rec.geometry.coordinates)
     IN  IF "node" \notin DOMAIN rec.properties
           THEN rpc' = "raised" /\ rret' = Raise("KeyError", <<"node">>) /\ UNCHANGED <<g, ri>>
           ELSE /\ g' = add_node(g, nodeId(rec, args), Pop(props, "node"))
                /\ ri' = ri + 1
                /\ UNCHANGED <<rpc, rret>>
  /\ UNCHANGED <<self, args, file, writeVars, geomVars, transVars>>

ReadEdges ==
  /\ rpc = "nodes" /\ ri > Len(file.nodes.recs)
  /\ IF ~file.edges.exists
       THEN rpc' = "raised" /\ rret' = Raise("IOError", <<"edges">>) /\ ri' = ri
     ELSE IF crsDiffers(file.edges.crs, file.nodes.crs)
       THEN /\ rpc' = "raised" /\ ri' = ri
            /\ rret' = Raise("node and edge data must have same projection", <<>>)
     ELSE rpc' = "edges" /\ ri' = 1 /\ rret' = rret
  /\ UNCHANGED <<self, args, file, g, writeVars, geomVars, transVars>>

ReadEdge ==
  /\ rpc = "edges" /\ ri <= Len(file.edges.recs)
  /\ LET rec == file.edges.recs[ri]
         props == Put(rec.properties, "coords", inner(rec.geometry.coordinates))
     IN  IF {"anode", "bnode"} \ DOMAIN rec.properties # {}
           THEN rpc' = "raised" /\ rret' = Raise("KeyError", <<"anode">>) /\ UNCHANGED <<g, ri>>
         ELSE
           LET ends == endIds(rec, args)
           IN  IF dangling(g, ends)
                 THEN /\ rpc' = "raised"
                      /\ rret' = Raise(IF args.method = "bylocation"
                                         THEN "An end point for edge is not close enough to any node"
                                         ELSE "An end node for edge is not one of the nodes in the node dataset",
                                       ends)
                      /\ UNCHANGED <<g, ri>>
                 ELSE /\ g' = add_edge(g, ends[1], ends[2], Pop(Pop(props, "anode"), "bnode"))
                      /\ ri' = ri + 1
                      /\ UNCHANGED <<rpc, rret>>
  /\ UNCHANGED <<self, args, file, writeVars, geomVars, transVars>>

ReadEnd ==
  /\ rpc = "edges" /\ ri > Len(file.edges.recs)
  /\ g' = setCrs(g, file.edges.crs)
  /\ rret' = Return(g')
  /\ rpc' = "done"
  /\ UNCHANGED <<self, args, file, ri, writeVars, geomVars, transVars>>

\* ------------------------------------------- persistence: inputs and runs
A == S("a")
B == S("7")

ioMids(k) == [i \in 1..k |-> <<i, 1>>]
field(k, v) == [x \in {k} |-> v]

\* a graph of node A, and node B when two, with the edges A->B and B->A of
\* eab and eba intermediate vertices (-1: no such edge)
IOGraph(two, ca, cb, bagA, bagB, eab, eba) ==
  LET ns == IF two THEN {A, B} ELSE {A}
      es == {e \in {<<A, B>>, <<B, A>>} :
               two /\ (IF e = <<A, B>> THEN eab ELSE eba) >= 0}
  IN  [node  |-> [n \in ns |-> IF n = A THEN Put(bagA, "coords", ca)
                               ELSE Put(bagB, "coords", cb)],
       edge  |-> [e \in es |-> IF e = <<A, B>>
                                 THEN Put(field("len", I("7")), "coords", ioMids(eab))
                                 ELSE field("coords", ioMids(eba))],
       graph |-> field("crs", "A")]

NameBags == {EmptyDict, field("name", S("a")), field("name", S("7"))}
NodeFieldOpts == {NoDict, Some(field("name", "str")), Some(field("name", "int")),
                  Some(field("name", "blob")), Some(field("node", "int"))}
EdgeFieldOpts == {NoDict, Some(field("len", "str")), Some(field("len", "blob"))}
DtypeOpts == {"str", "int", "blob"}

NameGraphs ==
  { IOGraph(two, ca, <<2, 0>>, bagA, bagB, eab, eba) :
      two \in BOOLEAN, ca \in {<<0, 0>>, <<1, 2>>},
      bagA \in NameBags, bagB \in {EmptyDict, field("name", S("7"))},
      eab \in -1..MaxMid, eba \in -1..MaxMid }

NameArgs ==
  [plan : {"write_read"}, method : {"byname"}, precision : {NoPrecision},
   node_dtype : DtypeOpts, node_fields : NodeFieldOpts, edge_fields : EdgeFieldOpts]

LocCoords == (0..MaxXY) \X {0, 1}

LocGraphs ==
  { IOGraph(two, ca, cb, EmptyDict, EmptyDict, eab, eba) :
      two \in BOOLEAN, ca \in LocCoords, cb \in LocCoords,
      eab \in -1..MaxMid, eba \in -1..MaxMid }

LocArgs ==
  [plan : {"write_read"}, method : {"bylocation"}, precision : {Some(0), Some(1)},
   node_dtype : {"str"}, node_fields : {NoDict}, edge_fields : {NoDict}]

InitRoundTrip ==
  /\ \/ self \in NameGraphs /\ args \in NameArgs
     \/ self \in LocGraphs /\ args \in LocArgs
  /\ file = NoFile
  /\ wpc = "idle" /\ wret = Pending
  /\ rpc = "idle" /\ ri = 0 /\ g = NewGraph /\ rret = Pending
  /\ ret = NoCall(<<>>)
  /\ IdleTrans

\* datasets that are already there
pointRec(id, c) ==
  [geometry |-> [type |-> "Point", coordinates |-> c], properties |-> field("node", id)]
lineRec(u, v, c1, c2) ==
  [geometry |-> [type |-> "LineString", coordinates |-> <<c1, c2>>],
   properties |-> Put(field("anode", u), "bnode", v)]

UpToTwo(R) == {<<>>} \cup {<<r>> : r \in R} \cup {<<r, q>> : r \in R, q \in R}
UpToOne(R) == {<<>>} \cup {<<r>> : r \in R}

layer(c, schema, recs) == [exists |-> TRUE, crs |-> c, schema |-> schema, recs |-> recs]

NameFiles ==
  { [nodes |-> layer("A", field("node", "str"), nr),
     edges |-> layer(c, Put(field("anode", "str"), "bnode", "str"), er)] :
      nr \in UpToTwo({pointRec(id, <<0, 0>>) : id \in {A, B}}),
      er \in UpToTwo({lineRec(u, v, <<0, 0>>, <<0, 0>>) : u \in {A, B}, v \in {A, B}}),
      c \in ValidCrs }

LocFiles ==
  { [nodes |-> layer("A", field("node", "str"), nr),
     edges |-> layer(c, Put(field("anode", "str"), "bnode", "str"), er)] :
      nr \in UpToTwo({pointRec(A, p) : p \in LocCoords}),
      er \in UpToOne({lineRec(A, A, p, q) : p \in LocCoords, q \in LocCoords}),
      c \in ValidCrs }

ReadArgs(methods, precisions) ==
  [plan : {"read"}, method : methods, precision : precisions,
   node_dtype : {""}, node_fields : {NoDict}, edge_fields : {NoDict}]

InitRead ==
  /\ \/ /\ file \in NameFiles
        /\ args \in ReadArgs({"byname", "bylocation", "byid"}, {NoPrecision})
     \/ /\ file \in LocFiles
        /\ args \in ReadArgs({"bylocation"}, {Some(0), Some(1)})
  /\ self = NewGraph
  /\ wpc = "idle" /\ wret = Pending
  /\ rpc = "idle" /\ ri = 0 /\ g = NewGraph /\ rret = Pending
  /\ ret = NoCall(<<>>)
  /\ IdleTrans

InitIO == InitRoundTrip \/ InitRead

NextIO ==
  \/ WriteValidate \/ WriteNodes \/ WriteEdges
  \/ ReadBegin \/ ReadNode \/ ReadEdges \/ ReadEdge \/ ReadEnd

SpecIO == InitIO /\ [][NextIO]_vars

\* ------------------------------------------------ claims on the accessors
nodeCoords(G, n) == G.node[n]["coords"]
edgeCoords(G, u, v) == G.edge[<<u, v>>]["coords"]

Assembles(G, nodes) ==
  /\ Len(nodes) >= 1
  /\ \A i \in 1..Len(nodes) :
        nodes[i] \in DOMAIN G.node /\ "coords" \in DOMAIN G.node[nodes[i]]
  /\ \A i \in 1..(Len(nodes) - 1) :
        /\ <<nodes[i], nodes[i + 1]>> \in DOMAIN G.edge
        /\ "coords" \in DOMAIN G.edge[<<nodes[i], nodes[i + 1]>>]

\* the index at which the j-th node's coords must stand
RECURSIVE off(_, _, _)
off(G, nodes, j) ==
  IF j = 1 THEN 1
  ELSE off(G, nodes, j - 1) + Len(edgeCoords(G, nodes[j - 1], nodes[j])) + 1

\* C1: for K >= 2 node ids with coords joined by edges with coords, coords
\* returns the first node's coords, then per edge in order the edge's
\* intermediate vertices followed by the target's coords; with M vertices
\* per edge that is K + (K-1)*M coordinates. For one id it returns the
\* node's coords.
C1_PathAssembly ==
  (ret.op = "coords" /\ Assembles(ret.pre, ret.nodes)) =>
    LET G == ret.pre
        ns == ret.nodes
        K == Len(ns)
        v == ret.out.val
    IN  /\ ret.out.ok
        /\ K = 1 => v = nodeCoords(G, ns[1])
        /\ K >= 2 =>
              /\ Len(v) = off(G, ns, K)
              /\ \A j \in 1..K : v[off(G, ns, j)] = nodeCoords(G, ns[j])
              /\ \A j \in 1..(K - 1) :
                    \A i \in 1..Len(edgeCoords(G, ns[j], ns[j + 1])) :
                      v[off(G, ns, j) + i] = edgeCoords(G, ns[j], ns[j + 1])[i]
              /\ \A M \in 0..MaxMid :
                    (\A j \in 1..(K - 1) : Len(edgeCoords(G, ns[j], ns[j + 1])) = M)
                      => Len(v) = K + (K - 1) * M

C1_Witness ==
  /\ ret.op = "coords" /\ Assembles(ret.pre, ret.nodes)
  /\ Len(ret.nodes) = MaxArgs /\ MaxArgs >= 3
  /\ ret.nodes[1] # ret.nodes[2]
  /\ \A j \in 1..(MaxArgs - 1) :
        Len(edgeCoords(ret.pre, ret.nodes[j], ret.nodes[j + 1])) = MaxMid
  /\ Len(ret.out.val) = MaxArgs + (MaxArgs - 1) * MaxMid /\ MaxMid >= 1

FeatureDone == ret.op = "feature" /\ ret.out.ok

\* the stored dict of the entity feature was called on
bagOf(G, nodes) ==
  IF Len(nodes) = 1 THEN G.node[nodes[1]] ELSE G.edge[<<nodes[1], nodes[2]>>]

withIdentity(d, nodes) ==
  IF Len(nodes) = 1 THEN Put(d, "node", nodes[1])
  ELSE Put(Put(d, "anode", nodes[1]), "bnode", nodes[2])

\* C8 as stated: the properties are a copy of the attribute bag with coords
\* excluded, plus the identity fields; the stored bag is not modified.
C8_AsStated ==
  FeatureDone =>
    /\ ret.out.val.properties = withIdentity(Pop(bagOf(ret.pre, ret.nodes), "coords"), ret.nodes)
    /\ self = ret.pre

\* C8 amended: the properties are a copy of the whole attribute bag, coords
\* included, plus the identity fields node (one id) or anode and bnode (two
\* ids) set to the given ids; the stored bag is not modified.
C8_FeatureProps ==
  FeatureDone =>
    /\ ret.out.val.properties = withIdentity(bagOf(ret.pre, ret.nodes), ret.nodes)
    /\ ret.out.val.properties["coords"] = bagOf(ret.pre, ret.nodes)["coords"]
    /\ self = ret.pre

C8_Witness ==
  /\ FeatureDone /\ Len(ret.nodes) = 2
  /\ "len" \in DOMAIN ret.out.val.properties
  /\ ret.out.val.properties["anode"] = N1 /\ ret.out.val.properties["bnode"] = N2

\* C10: coords() and shape() with no node id fail with 'must provide at least
\* one node'; feature() with no id or more than two ids fails with a usage
\* error; no value is returned and the graph is unchanged.
C10_Arity ==
  /\ (ret.op \in {"coords", "shape"} /\ Len(ret.nodes) = 0) =>
        /\ ~ret.out.ok
        /\ ret.out.err = "must provide at least one node"
        /\ self = ret.pre
  /\ (ret.op = "feature" /\ Len(ret.nodes) \notin {1, 2}) =>
        /\ ~ret.out.ok
        /\ ret.out.err = "must provide either one or two nodes"
        /\ self = ret.pre

C10_Witness ==
  /\ ret.op = "feature" /\ Len(ret.nodes) = 3 /\ ~ret.out.ok
  /\ Assembles(ret.pre, ret.nodes)

\* ------------------------------------------------- claims on transform
\* the caller sees the graph between calls: before one, after one returned
\* and after one raised
Observable == tpc \in {"idle", "done", "raised"}

\* every stored coordinate is the frame-c expression of its position
InFrame(G, c) ==
  /\ \A n \in DOMAIN G.node :
        "coords" \in DOMAIN G.node[n] => nodeCoords(G, n) = proj("A", c, at(n))
  /\ \A e \in DOMAIN G.edge :
        "coords" \in DOMAIN G.edge[e] =>
          LET m == G.edge[e]["coords"]
          IN  m = [i \in DOMAIN m |-> proj("A", c, mids(e, Len(m))[i])]

\* C6: in every state the caller can observe after any sequence of transform
\* calls, failed ones included, every node coordinate and every intermediate
\* vertex is expressed in the CRS the graph-level marker names.
C6_CrsConsistent == Observable => InFrame(self, crs(self))

\* C7: the marker is set to the target only after every node's coords and
\* every edge's non-empty vertex sequence has been transformed; when the
\* processing does not complete the marker keeps its value; edges with no
\* intermediate vertex are left unchanged.
C7_MarkerLast ==
  /\ tpc \in {"nodes", "edges", "raised"} => crs(self) = crs(snap)
  /\ tpc = "done" =>
        /\ crs(self) = tout
        /\ \A n \in DOMAIN snap.node :
              nodeCoords(self, n) = proj(crs(snap), tout, nodeCoords(snap, n))
        /\ \A e \in DOMAIN snap.edge :
              LET m == snap.edge[e]["coords"]
              IN  IF m = <<>> THEN self.edge[e] = snap.edge[e]
                  ELSE self.edge[e]["coords"] =
                         [i \in DOMAIN m |-> proj(crs(snap), tout, m[i])]

C7_Witness ==
  /\ tpc = "done" /\ tout # crs(snap) /\ calls = 2
  /\ \E e \in DOMAIN self.edge : self.edge[e]["coords"] = <<>>
  /\ \E e \in DOMAIN self.edge : self.edge[e]["coords"] # <<>>
  /\ InFrame(self, tout)

\* ------------------------------------------------ claims on persistence
\* the graph was written in full and the read of the dataset has ended
WrittenAndRead(method) ==
  /\ args.plan = "write_read" /\ args.method = method
  /\ wpc = "done" /\ rpc \in {"done", "raised"}

loaded == rret.val

\* C2 as stated: write then read by name yields the identical node set, edge
\* set and property values (coords included, identity fields apart).
C2_AsStated ==
  (WrittenAndRead("byname") /\ rpc = "done") =>
    loaded.node = self.node /\ loaded.edge = self.edge

converted(tag, v) == IF tag = "int" THEN I(v[2]) ELSE S(v[2])

\* what a stored dict comes back as: coords, and each declared field as the
\* stored value converted to its declared type, None where there is none
comesBack(bag, fields, identity) ==
  [k \in (DOMAIN fields \ identity) \cup {"coords"} |->
     IF k = "coords" THEN bag["coords"]
     ELSE IF k \notin DOMAIN bag \/ bag[k] = None THEN None
     ELSE converted(fields[k], bag[k])]

\* C2 amended: for a graph with string node ids written in full with the
\* identity type 'str', the read by name succeeds and yields the identical
\* node set and edge set, identical node coords and edge intermediate coords,
\* and for every declared non-identity field the stored value converted to
\* the declared type (None where the entity has no value); attributes that
\* are not declared in the schema are not reproduced.
C2_RoundTripByName ==
  (WrittenAndRead("byname") /\ args.node_dtype = "str") =>
    /\ rpc = "done"
    /\ loaded.node = [n \in DOMAIN self.node |->
                        comesBack(self.node[n], orEmpty(args.node_fields), {"node"})]
    /\ loaded.edge = [e \in DOMAIN self.edge |->
                        comesBack(self.edge[e], orEmpty(args.edge_fields), {"anode", "bnode"})]

C2_Witness ==
  /\ WrittenAndRead("byname") /\ args.node_dtype = "str" /\ rpc = "done"
  /\ args.node_fields = Some(field("name", "int")) /\ args.edge_fields = NoDict
  /\ B \in DOMAIN self.node /\ <<A, B>> \in DOMAIN self.edge
  /\ "name" \in DOMAIN self.node[A] /\ self.node[A]["name"] = S("7")
  /\ loaded.node[A]["name"] = I("7")
  /\ "name" \notin DOMAIN self.node[B] /\ loaded.node[B]["name"] = None
  /\ Len(loaded.edge[<<A, B>>]["coords"]) = MaxMid /\ MaxMid >= 1
  /\ "len" \in DOMAIN self.edge[<<A, B>>] /\ "len" \notin DOMAIN loaded.edge[<<A, B>>]

Rounded(G, precision) ==
  \A n \in DOMAIN G.node : rnd(nodeCoords(G, n), precision) = nodeCoords(G, n)

\* the topology of G under the ids its nodes' coordinates give
SameTopology(G, L) ==
  /\ DOMAIN L.node = {nodeCoords(G, n) : n \in DOMAIN G.node}
  /\ Cardinality(DOMAIN L.node) = Cardinality(DOMAIN G.node)
  /\ \A u, v \in DOMAIN G.node :
       <<u, v>> \in DOMAIN G.edge <=> <<nodeCoords(G, u), nodeCoords(G, v)>> \in DOMAIN L.edge

\* C3 as stated: for every graph whose node coordinates are rounded to N
\* decimals, write then read by location with precision N gives one loaded
\* node per node, named by its coordinates, and the same edges.
C3_AsStated ==
  (WrittenAndRead("bylocation") /\ Rounded(self, args.precision.val)) =>
    rpc = "done" /\ SameTopology(self, loaded)

DistinctPlaces(G) ==
  \A u, v \in DOMAIN G.node : nodeCoords(G, u) = nodeCoords(G, v) => u = v

\* C3 amended: for every graph whose node coordinates are rounded to N
\* decimals and pairwise distinct, write then read by location with
\* precision N succeeds; the loaded node ids are the nodes' coordinate
\* tuples, one per node, and (u,v) is an edge exactly when
\* (coords(u), coords(v)) is a loaded edge.
C3_RoundTripByLocation ==
  (WrittenAndRead("bylocation") /\ Rounded(self, args.precision.val) /\ DistinctPlaces(self)) =>
    rpc = "done" /\ SameTopology(self, loaded)

C3_Witness ==
  /\ WrittenAndRead("bylocation") /\ args.precision.val = 0 /\ rpc = "done"
  /\ Rounded(self, 0) /\ DistinctPlaces(self)
  /\ DOMAIN self.edge = {<<A, B>>} /\ Len(self.edge[<<A, B>>]["coords"]) = MaxMid
  /\ MaxMid >= 1
  /\ DOMAIN loaded.edge = {<<nodeCoords(self, A), nodeCoords(self, B)>>}

\* the ids the records of the dataset resolve to, under the method of the call
resolved(pt) == IF args.method = "byname" THEN pt[1] ELSE rnd(pt[2], args.precision.val)
nodeIdOf(i) ==
  resolved(<<file.nodes.recs[i].properties["node"], file.nodes.recs[i].geometry.coordinates>>)
endsOf(i) ==
  LET rec == file.edges.recs[i]
      line == rec.geometry.coordinates
  IN  <<resolved(<<rec.properties["anode"], line[1]>>),
        resolved(<<rec.properties["bnode"], line[Len(line)]>>)>>
LoadedIds == {nodeIdOf(i) : i \in DOMAIN file.nodes.recs}
Matched(i) == endsOf(i)[1] \in LoadedIds /\ endsOf(i)[2] \in LoadedIds

DanglingRaised ==
  /\ rpc = "raised"
  /\ rret.err \in {"An end point for edge is not close enough to any node",
                   "An end node for edge is not one of the nodes in the node dataset"}

\* C4: under either method, an edge record one of whose resolved end points
\* is not a loaded node id makes the load fail at that record, with an error
\* naming the end points; the edge is not added and no graph is returned.
\* Every graph returned has the end points of every edge among its nodes.
C4_Dangling ==
  /\ rpc # "done" => ~rret.ok
  /\ rpc = "done" =>
       /\ rret.ok
       /\ \A e \in DOMAIN loaded.edge :
            e[1] \in DOMAIN loaded.node /\ e[2] \in DOMAIN loaded.node
       /\ \A i \in DOMAIN file.edges.recs : Matched(i)
  /\ rpc = "edges" => \A i \in 1..(ri - 1) : Matched(i)
  /\ DanglingRaised =>
       /\ ri \in DOMAIN file.edges.recs
       /\ ~Matched(ri)
       /\ rret.args = endsOf(ri)
       /\ DOMAIN g.edge = {endsOf(i) : i \in 1..(ri - 1)}

C4_Witness ==
  /\ DanglingRaised /\ ri = 2
  /\ endsOf(1) # endsOf(2)
  /\ endsOf(2)[1] \in LoadedIds /\ endsOf(2)[2] \notin LoadedIds

CrsRaised ==
  rpc = "raised" /\ rret.err = "node and edge data must have same projection"

\* C5: when the CRS of the edge layer differs from the CRS of the node layer
\* the load fails with the CRS error before any edge record is processed or
\* any edge added; on success the returned graph's CRS is the node layer's.
C5_CrsMismatch ==
  /\ (file.nodes.exists /\ file.edges.exists /\ file.edges.crs # file.nodes.crs) =>
       /\ rpc \notin {"edges", "done"}
       /\ g.edge = EmptyDict
       /\ (rpc = "raised" /\ ri > Len(file.nodes.recs)) => CrsRaised
  /\ CrsRaised =>
       /\ file.edges.crs # file.nodes.crs
       /\ g.edge = EmptyDict /\ ri = Len(file.nodes.recs) + 1
       /\ ~rret.ok
  /\ rpc = "done" => crs(loaded) = file.nodes.crs

C5_Witness ==
  /\ CrsRaised
  /\ Len(file.nodes.recs) = 2 /\ Cardinality(DOMAIN g.node) = 2
  /\ Len(file.edges.recs) >= 1 /\ Matched(1)

declaredTags ==
  values(orEmpty(args.node_fields)) \cup values(orEmpty(args.edge_fields))
    \cup {args.node_dtype}

SchemaRaised ==
  wpc = "raised" /\ wret.err = "error converting dtype to python type"

\* C9: writeGisFile validates every type tag of the node schema, the edge
\* schema and the identity type before it opens or writes a layer: an
\* unsupported tag fails the call with the schema error and nothing is
\* written. When the validation passes, the schemas written hold node, anode
\* and bnode with the identity type, whatever the caller supplied there.
C9_ValidateFirst ==
  /\ (args.plan = "write_read" /\ wpc # "idle" /\ ~(declaredTags \subseteq {"str", "int"})) =>
       SchemaRaised /\ file = NoFile
  /\ SchemaRaised => file = NoFile
  /\ (args.plan = "write_read" /\ file.nodes.exists) =>
       file.nodes.schema["node"] = args.node_dtype
  /\ (args.plan = "write_read" /\ file.edges.exists) =>
       /\ file.edges.schema["anode"] = args.node_dtype
       /\ file.edges.schema["bnode"] = args.node_dtype

C9_Witness ==
  /\ SchemaRaised /\ file = NoFile
  /\ args.node_dtype = "str" /\ args.node_fields = Some(field("node", "int"))
  /\ args.edge_fields = Some(field("len", "blob"))
  /\ <<A, B>> \in DOMAIN self.edge

\* the other case of C9: a caller entry under node is overridden
C9_WitnessOverride ==
  /\ wpc = "done" /\ args.node_fields = Some(field("node", "int"))
  /\ args.node_dtype = "str" /\ file.nodes.schema["node"] = "str"
  /\ Len(file.nodes.recs) = 2

====
